---- MODULE Spec2Model ----
(***************************************************************************)
(* The compressive-sensing ECG codec of src/src/skecg/cs/codec_a.py:       *)
(* build_codec, and the ecg_encoder / ecg_decoder closures it returns.     *)
(*                                                                         *)
(* Vectors are sequences (1-based: index i here is index i-1 in the        *)
(* source).  A matrix is the sequence of its columns, so X[i][j] is the    *)
(* source's X[j-1, i-1] and flatten(order='F') is the concatenation of the *)
(* columns.                                                                *)
(*                                                                         *)
(* Library calls are modelled by what they do to the values the codec      *)
(* hands them:                                                             *)
(*  - constriction's AnsCoder is a range-ANS stack coder; it is modelled   *)
(*    step by step (push, pop, renormalisation, get_compressed, the        *)
(*    constructor that reads the state back) with its 24/32/64 bit widths  *)
(*    scaled to PRECISION/WordBits/StateBits so that states stay inside    *)
(*    TLC's integers;                                                      *)
(*  - QuantizedGaussian is a leaky quantizer over [a_min, a_max]: every    *)
(*    symbol of the support gets probability >= 1/2^PRECISION and the      *)
(*    rest of the mass follows a bell-shaped integer weight centred on the *)
(*    mean (the exact Gaussian mass is floating point and is not           *)
(*    reproduced);                                                         *)
(*  - bsbl.bsbl_bo_np_jit is a pure function of (DPhi, y, block_size,      *)
(*    options); the matched-filter estimate DPhi^T y stands for it;        *)
(*  - numpy statistics are computed exactly over the integers.             *)
(***************************************************************************)
EXTENDS Integers, Sequences, FiniteSets, TLC

(* ------------------------------ bounds --------------------------------- *)

\* longest signal drawn freely over Samples
MaxLen == 4

\* longest signal of the flat-baseline-with-one-spike family
SpikeLen == 8

\* largest quantization shift
MaxQBits == 1

\* longest sequence handed to the entropy coder on its own
MaxSeqLen == 4

\* the (mean_val, std_val) pairs the entropy coder is exercised with on its own
MeanVals == {-3, 1}

StdVals == {1}

\* window lengths and measurement counts explored
Ns == {2}

Ms == {1, 2}

\* 11-bit ECG samples around the DC level 1024
Samples == {1021, 1024, 1028}

Spikes == {1020, 1028}

ShortSignals == UNION {[1..L -> Samples] : L \in 0..MaxLen}

\* p = 0: no spike at all (a flat signal)
SpikeSignals ==
  UNION {{[i \in 1..L |-> IF i = p THEN s ELSE 1024] : p \in 0..L, s \in Spikes} :
            L \in (MaxLen + 1)..SpikeLen}

Signals == ShortSignals \cup SpikeSignals

(* ------------------------- program constants --------------------------- *)

n_sigma == 3

DCBias == 1024

max_iters == 20

\* AnsCoder's widths (24 / 32 / 64 in constriction), scaled down so that a
\* coder state fits TLC's integers; PRECISION <= WordBits and
\* StateBits = 2 * WordBits as in constriction's default coder
PRECISION == 12

WordBits == 14

StateBits == 28

(* ------------------------------ helpers -------------------------------- *)

Pow2(k) == 2 ^ k

Abs(v) == IF v < 0 THEN -v ELSE v

Min(a, b) == IF a < b THEN a ELSE b

RECURSIVE SeqSum(_)
SeqSum(s) == IF s = <<>> THEN 0 ELSE Head(s) + SeqSum(Tail(s))

RECURSIVE SeqSumSq(_)
SeqSumSq(s) == IF s = <<>> THEN 0 ELSE Head(s) * Head(s) + SeqSumSq(Tail(s))

Reverse(s) == [i \in 1..Len(s) |-> s[Len(s) + 1 - i]]

\* flatten(order='F'): the columns one after the other
RECURSIVE FlattenF(_)
FlattenF(M) == IF M = <<>> THEN <<>> ELSE Head(M) \o FlattenF(Tail(M))

\* a port of the shift that rounds toward zero, as C's / does
ShiftRightTruncating(v, k) ==
  IF v < 0 THEN -((-v) \div Pow2(k)) ELSE v \div Pow2(k)

\* Y2 >> q_bits on numpy ints: arithmetic shift, i.e. floor division
ShiftRight(v, k) == v \div Pow2(k)

\* reconstructed << q_bits
ShiftLeft(v, k) == v * Pow2(k)

\* a clip that forgets the lower bound (np.minimum(v, hi))
ClipUpperOnly(v, lo, hi) == IF v > hi THEN hi ELSE v

\* np.clip(v, lo, hi)
Clip(v, lo, hi) == IF v < lo THEN lo ELSE IF v > hi THEN hi ELSE v

\* int(...) without np.round: the quotient rounded down
RoundDivFloor(num, den) == num \div den

\* np.round of an exact quotient num/den, den > 0: nearest, ties to even
RoundDiv(num, den) ==
  LET q == num \div den
      r == num - q * den
  IN  IF 2 * r < den THEN q
      ELSE IF 2 * r > den THEN q + 1
      ELSE IF q % 2 = 0 THEN q ELSE q + 1

\* int(np.round(Y2.mean()))
MeanVal(s) == RoundDiv(SeqSum(s), Len(s))

\* N^2 times the population variance of s (np.std's ddof = 0)
VarNum(s) == Len(s) * SeqSumSq(s) - SeqSum(s) * SeqSum(s)

\* whether sqrt(num/den^2) rounds to k or below: sqrt < k + 1/2, or
\* sqrt = k + 1/2 and k is even (ties to even)
RoundsTo(k, num, den) ==
  LET hi == (2 * k + 1) * (2 * k + 1) * den * den
  IN  4 * num < hi \/ (4 * num = hi /\ k % 2 = 0)

\* np.round of sqrt(num/den^2): the least k of lo..hi with RoundsTo(k)
RECURSIVE RoundSqrtIn(_, _, _, _)
RoundSqrtIn(lo, hi, num, den) ==
  IF lo >= hi THEN lo
  ELSE LET mid == (lo + hi) \div 2
       IN  IF RoundsTo(mid, num, den) THEN RoundSqrtIn(lo, mid, num, den)
           ELSE RoundSqrtIn(mid + 1, hi, num, den)

RECURSIVE SeqMax(_)
SeqMax(s) ==
  IF Len(s) = 1 THEN s[1]
  ELSE LET t == SeqMax(Tail(s)) IN IF s[1] > t THEN s[1] ELSE t

RECURSIVE SeqMin(_)
SeqMin(s) ==
  IF Len(s) = 1 THEN s[1]
  ELSE LET t == SeqMin(Tail(s)) IN IF s[1] < t THEN s[1] ELSE t

\* int(np.round(Y2.std())); a standard deviation never exceeds the range
StdVal(s) == RoundSqrtIn(0, SeqMax(s) - SeqMin(s), VarNum(s), Len(s))

(* ---------------------------- windowing -------------------------------- *)

\* What crn.vec_to_windows may do with a length that is no multiple of wlen:
\* the source does not check it, so every outcome is kept.
PadPolicies == {"zero_pad", "truncate", "raise"}

NWindows(len, wlen, policy) ==
  IF len % wlen = 0 \/ policy = "truncate" THEN len \div wlen
  ELSE (len \div wlen) + 1

\* a reshape that fills the windows row by row (order='C' into (wlen, nw))
vec_to_windows_row_major(x, wlen, policy) ==
  LET nw == NWindows(Len(x), wlen, policy)
  IN  [i \in 1..nw |->
         [j \in 1..wlen |->
            IF (j - 1) * nw + i <= Len(x) THEN x[(j - 1) * nw + i] ELSE 0]]

\* crn.vec_to_windows(x, wlen): column i holds x[(i-1)*wlen+1 .. i*wlen]
vec_to_windows(x, wlen, policy) ==
  [i \in 1..NWindows(Len(x), wlen, policy) |->
     [j \in 1..wlen |->
        IF (i - 1) * wlen + j <= Len(x) THEN x[(i - 1) * wlen + j] ELSE 0]]

\* M + c and M - c, element by element
AddScalar(M, c) == [i \in 1..Len(M) |-> [j \in 1..Len(M[i]) |-> M[i][j] + c]]

\* X_hat.flatten(order='F') + 1024
from_windows(M) == FlattenF(AddScalar(M, DCBias))

(* -------------------------- sensing matrix ----------------------------- *)

Ones(col) == Cardinality({r \in 1..Len(col) : col[r] = 1})

\* crdict.sparse_binary_mtx(key, m, n, d, normalize_atoms=False): an m x n
\* 0/1 matrix with k ones in every column; the seeded placement is not
\* known here, so every placement is kept.
BinaryMatrices(mm, nn, k) ==
  [1..nn -> {col \in [1..mm -> {0, 1}] : Ones(col) = k}]

\* Phi @ X: (Phi @ X)[i][r] = sum over c of Phi[c][r] * X[i][c]
RECURSIVE Dot(_, _, _, _)
Dot(P, x, r, c) ==
  IF c = 0 THEN 0 ELSE P[c][r] * x[c] + Dot(P, x, r, c - 1)

MatMul(P, XX, mm) ==
  [i \in 1..Len(XX) |-> [r \in 1..mm |-> Dot(P, XX[i], r, Len(P))]]

(* --------------------------- entropy model ----------------------------- *)

\* constriction.stream.model.QuantizedGaussian(a_min, a_max) with the
\* parameters (mean, std) the coder is given for every symbol
QuantizedGaussian(lo, hi, mean, std) ==
  [a_min |-> lo, a_max |-> hi, mean |-> mean, std |-> std]

InSupport(mdl, v) == mdl.a_min <= v /\ v <= mdl.a_max

\* how many t in a_min..x-1 lie within k*std of the mean
CountNear(mdl, x, k) ==
  LET lo == IF mdl.mean - k * mdl.std < mdl.a_min THEN mdl.a_min
            ELSE mdl.mean - k * mdl.std
      hi == Min(x - 1, mdl.mean + k * mdl.std)
  IN  IF hi < lo THEN 0 ELSE hi - lo + 1

\* bell-shaped integer mass below x: weight 64 within one std of the mean,
\* 16 within two, 1 in the tails
CumWeight(mdl, x) ==
  (x - mdl.a_min) + 15 * CountNear(mdl, x, 2) + 48 * CountNear(mdl, x, 1)

\* The leaky quantizer's left-sided cumulative: one unit of probability is
\* reserved for every symbol of the support, the free remainder follows the
\* bell; Left(a_min) = 0 and Left(a_max + 1) = 2^PRECISION.
Left(mdl, x) ==
  LET K    == mdl.a_max - mdl.a_min + 1
      free == Pow2(PRECISION) - K
  IN  (free * CumWeight(mdl, x)) \div CumWeight(mdl, mdl.a_max + 1)
        + (x - mdl.a_min)

Probability(mdl, v) == Left(mdl, v + 1) - Left(mdl, v)

\* the symbol v of [lo, hi] with Left(v) <= quantile < Left(v + 1)
RECURSIVE QuantileSearch(_, _, _, _)
QuantileSearch(mdl, quantile, lo, hi) ==
  IF lo = hi THEN lo
  ELSE LET mid == (lo + hi + 1) \div 2
       IN  IF Left(mdl, mid) <= quantile
           THEN QuantileSearch(mdl, quantile, mid, hi)
           ELSE QuantileSearch(mdl, quantile, lo, mid - 1)

Quantile(mdl, quantile) == QuantileSearch(mdl, quantile, mdl.a_min, mdl.a_max)

(* ----------------------------- stack coder ----------------------------- *)

\* constriction.stream.stack.AnsCoder(): empty bulk, state 0
EmptyCoder == [state |-> 0, bulk |-> <<>>]

\* AnsCoder.encode_symbol: flush the low word when the state could
\* overflow, then fold the symbol into the state
push(coder, v, mdl) ==
  LET prob == Probability(mdl, v)
      c1   == IF coder.state \div Pow2(StateBits - PRECISION) >= prob
              THEN [state |-> coder.state \div Pow2(WordBits),
                    bulk  |-> Append(coder.bulk, coder.state % Pow2(WordBits))]
              ELSE coder
  IN  [state |-> (c1.state \div prob) * Pow2(PRECISION)
                   + Left(mdl, v) + (c1.state % prob),
       bulk  |-> c1.bulk]

\* AnsCoder.decode_symbol: read the symbol off the low PRECISION bits, undo
\* the fold, refill from the bulk when the state ran low
pop(coder, mdl) ==
  LET quantile == coder.state % Pow2(PRECISION)
      v        == Quantile(mdl, quantile)
      st1      == (coder.state \div Pow2(PRECISION)) * Probability(mdl, v)
                    + (quantile - Left(mdl, v))
      refill   == st1 < Pow2(StateBits - WordBits) /\ coder.bulk # <<>>
  IN  [symbol |-> v,
       coder  |-> IF refill
                  THEN [state |-> st1 * Pow2(WordBits)
                                    + coder.bulk[Len(coder.bulk)],
                        bulk  |-> SubSeq(coder.bulk, 1, Len(coder.bulk) - 1)]
                  ELSE [state |-> st1, bulk |-> coder.bulk]]

RECURSIVE PushAll(_, _, _)
PushAll(coder, symbols, mdl) ==
  IF symbols = <<>> THEN coder
  ELSE PushAll(push(coder, Head(symbols), mdl), Tail(symbols), mdl)

\* a coder that pushes in input order
EncodeOrderForward(symbols) == symbols

\* the order in which encode_reverse pushes its symbols: last first
EncodeOrder(symbols) == Reverse(symbols)

\* encoder.encode_reverse(Y2, model, means, stds)
encode_reverse(coder, symbols, mdl) == PushAll(coder, EncodeOrder(symbols), mdl)

\* encoder.get_compressed(): the bulk, then the state's words, low word
\* first, zero high words dropped
get_compressed(coder) ==
  coder.bulk \o
    (IF coder.state = 0 THEN <<>>
     ELSE IF coder.state < Pow2(WordBits) THEN <<coder.state>>
     ELSE <<coder.state % Pow2(WordBits), coder.state \div Pow2(WordBits)>>)

\* constriction.stream.stack.AnsCoder(compressed): the state is read back
\* off the end of the words, the rest is the bulk
AnsCoder(compressed) ==
  LET L == Len(compressed)
  IN  IF L = 0 THEN EmptyCoder
      ELSE IF L = 1 \/ compressed[L] >= Pow2(StateBits - WordBits)
      THEN [state |-> compressed[L], bulk |-> SubSeq(compressed, 1, L - 1)]
      ELSE [state |-> compressed[L] * Pow2(WordBits) + compressed[L - 1],
            bulk  |-> SubSeq(compressed, 1, L - 2)]

\* ans_decoder.decode(model, means, stds): len(means) pops, in pop order
RECURSIVE decode(_, _, _)
decode(coder, mdl, count) ==
  IF count = 0 THEN <<>>
  ELSE LET r == pop(coder, mdl)
       IN  <<r.symbol>> \o decode(r.coder, mdl, count - 1)

(* ------------------------------- solver -------------------------------- *)

\* bsbl.bsbl_bo_np_jit(DPhi, y, block_size, options): a pure function of its
\* arguments; the matched filter DPhi^T y stands for the estimate, and the
\* iteration count is some function of y that stays within max_iters
bsbl_bo(DPhi, y) ==
  [x          |-> [c \in 1..Len(DPhi) |->
                     SeqSum([r \in 1..Len(y) |-> DPhi[c][r] * y[r]])],
   iterations |-> Min(max_iters, 1 + SeqSum([r \in 1..Len(y) |-> Abs(y[r])]))]

(* ------------------------------- state --------------------------------- *)

VARIABLES
  pc,        \* where the session stands: new, built, build_failed, encoded,
             \* encode_failed, solving, decoded
  n, m, d, q_bits,   \* build_codec's arguments (block_size only reaches the solver)
  Phi,       \* the sensing matrix build_codec closes over (DPhi is its dense copy)
  ecg,       \* the signal given to ecg_encoder
  enc,       \* ecg_encoder's locals as it left them
  coded,     \* the EncodedData record
  dl,        \* ecg_decoder's locals
  decoded,   \* the DecodedData record (r_times, wall-clock readings, left out)
  err,       \* the exception that ended build_codec or ecg_encoder, if any
  ans        \* the entropy coder exercised on its own: the sequence, the
             \* (mean_val, std_val) pair, the encoder's and the decoder's coder

vars == <<pc, n, m, d, q_bits, Phi, ecg, enc, coded, dl, decoded, err, ans>>

NoAns ==
  [phase |-> "unused", mean_val |-> 0, std_val |-> 0, seq |-> <<>>,
   pushed |-> <<>>, coder |-> EmptyCoder, compressed |-> <<>>,
   reconstructed |-> <<>>]

NoEnc ==
  [X |-> <<>>, Y_np |-> <<>>, Y2q |-> <<>>, mean_val |-> 0, std_val |-> 0,
   a_min |-> 0, a_max |-> 0, Y2c |-> <<>>, pushed |-> <<>>]

NoCoded ==
  [n_samples |-> 0, n_windows |-> 0, n_measurements |-> 0, mean_val |-> 0,
   std_val |-> 0, compressed |-> <<>>, measurements |-> <<>>]

NoDl ==
  [a_min |-> 0, a_max |-> 0, reconstructed |-> <<>>, dequantized |-> <<>>,
   RY |-> <<>>, X_hat |-> <<>>, r_iters |-> <<>>, todo |-> {}]

NoDecoded == [x |-> <<>>, r_iters |-> <<>>]

Init ==
  /\ pc = "new"
  /\ n \in Ns
  /\ m \in Ms
  /\ d \in 1..(m + 1)
  /\ q_bits \in 0..MaxQBits
  /\ Phi = <<>>
  /\ ecg = <<>>
  /\ enc = NoEnc
  /\ coded = NoCoded
  /\ dl = NoDl
  /\ decoded = NoDecoded
  /\ err = ""
  /\ ans = NoAns

(* ---------------------------- build_codec ------------------------------ *)

\* build_codec has no check of its own on (n, m, d): the matrix generator
\* decides.  With d > m it either raises its own error or places only the m
\* ones a column has room for; both outcomes are kept.
build_codec ==
  /\ pc = "new"
  /\ \/ /\ d <= m
        /\ Phi' \in BinaryMatrices(m, n, d)
        /\ pc' = "built"
        /\ err' = err
     \/ /\ d > m
        /\ Phi' = Phi
        /\ pc' = "build_failed"
        /\ err' = "ValueError"
     \/ /\ d > m
        /\ Phi' \in BinaryMatrices(m, n, m)
        /\ pc' = "built"
        /\ err' = err
  /\ UNCHANGED <<n, m, d, q_bits, ecg, enc, coded, dl, decoded, ans>>

(* ---------------------------- ecg_encoder ------------------------------ *)

\* if q_bits > 0: Y2 = Y2 >> q_bits
Quantize(Y2, k) ==
  IF k > 0 THEN [i \in 1..Len(Y2) |-> ShiftRight(Y2[i], k)] ELSE Y2

\* the count taken from X instead of Y2 (X.size)
MeasurementCountOfX(XX, Y2) == IF XX = <<>> THEN 0 ELSE Len(XX) * Len(XX[1])

\* n_measurements = Y2.size
MeasurementCount(XX, Y2) == Len(Y2)

\* n_samples = X.size
SampleCount(sig, XX, wlen) == wlen * Len(XX)

\* The locals of ecg_encoder(sig) up to and including the clip, for a
\* non-empty stream.
EncoderLocals(sig, policy) ==
  LET XX   == AddScalar(vec_to_windows(sig, n, policy), -DCBias)
      Y    == MatMul(Phi, XX, m)
      Y2   == Quantize(FlattenF(Y), q_bits)
      mean == IF Y2 = <<>> THEN 0 ELSE MeanVal(Y2)
      std  == IF Y2 = <<>> THEN 0 ELSE StdVal(Y2)
      lo   == mean - n_sigma * std
      hi   == mean + n_sigma * std
  IN  [X |-> XX, Y_np |-> Y, Y2q |-> Y2, mean_val |-> mean, std_val |-> std,
       a_min |-> lo, a_max |-> hi,
       Y2c |-> [i \in 1..Len(Y2) |-> Clip(Y2[i], lo, hi)],
       pushed |-> <<>>]

\* Why ecg_encoder raises on these locals, "" when it does not:
\* np.max of an empty array; QuantizedGaussian over a one-symbol support;
\* a symbol outside the support.
EncoderError(loc) ==
  IF loc.Y2q = <<>> THEN "ValueError"
  ELSE IF loc.a_min = loc.a_max THEN "DegenerateModel"
  ELSE IF \E i \in 1..Len(loc.Y2c) :
            ~InSupport(QuantizedGaussian(loc.a_min, loc.a_max,
                                         loc.mean_val, loc.std_val), loc.Y2c[i])
  THEN "ImpossibleSymbol"
  ELSE ""

ecg_encoder(sig, policy) ==
  /\ pc = "built"
  /\ ecg' = sig
  /\ IF Len(sig) % n # 0 /\ policy = "raise"
     THEN /\ pc' = "encode_failed"
          /\ err' = "ReshapeError"
          /\ UNCHANGED <<enc, coded>>
     ELSE LET loc == EncoderLocals(sig, policy)
              why == EncoderError(loc)
              mdl == QuantizedGaussian(loc.a_min, loc.a_max,
                                       loc.mean_val, loc.std_val)
          IN  IF why # ""
              THEN /\ pc' = "encode_failed"
                   /\ err' = why
                   /\ enc' = loc
                   /\ coded' = coded
              ELSE /\ pc' = "encoded"
                   /\ err' = err
                   /\ enc' = [loc EXCEPT !.pushed = EncodeOrder(loc.Y2c)]
                   /\ coded' =
                        [n_samples      |-> SampleCount(sig, loc.X, n),
                         n_windows      |-> Len(loc.X),
                         n_measurements |-> MeasurementCount(loc.X, loc.Y2q),
                         mean_val       |-> loc.mean_val,
                         std_val        |-> loc.std_val,
                         compressed     |->
                           get_compressed(
                             encode_reverse(EmptyCoder, loc.Y2c, mdl)),
                         measurements   |-> loc.Y_np]
  /\ UNCHANGED <<n, m, d, q_bits, Phi, dl, decoded, ans>>

(* ------------------- the record between the two ------------------------ *)

\* EncodedData is a plain NamedTuple: the record a caller hands to
\* ecg_decoder may carry any diagnostics array; here, a zeroed one.
replace_measurements ==
  /\ pc = "encoded"
  /\ coded' = [coded EXCEPT !.measurements =
                 [i \in 1..Len(@) |-> [r \in 1..Len(@[i]) |-> 0]]]
  /\ UNCHANGED <<pc, n, m, d, q_bits, Phi, ecg, enc, dl, decoded, err, ans>>

(* ---------------------------- ecg_decoder ------------------------------ *)

\* a decoder that takes the retained raw measurements instead of decoding
\* the payload
ReconstructedFromDiagnostics(rec, mdl) ==
  IF q_bits > 0
  THEN [i \in 1..Len(FlattenF(rec.measurements)) |->
          ShiftRight(FlattenF(rec.measurements)[i], q_bits)]
  ELSE FlattenF(rec.measurements)

\* ans_decoder.decode(...) on AnsCoder(coded_ecg.compressed)
Reconstructed(rec, mdl) ==
  decode(AnsCoder(rec.compressed), mdl, rec.n_measurements)

\* if q_bits > 0: reconstructed = reconstructed << q_bits
Dequantize(s, k) ==
  IF k > 0 THEN [i \in 1..Len(s) |-> ShiftLeft(s[i], k)] ELSE s

\* ecg_decoder up to the loop
DecoderLocals(rec) ==
  LET lo  == rec.mean_val - n_sigma * rec.std_val
      hi  == rec.mean_val + n_sigma * rec.std_val
      mdl == QuantizedGaussian(lo, hi, rec.mean_val, rec.std_val)
      rs  == Reconstructed(rec, mdl)
      dq  == Dequantize(rs, q_bits)
  IN  [a_min |-> lo, a_max |-> hi, reconstructed |-> rs, dequantized |-> dq,
       RY |-> vec_to_windows(dq, m, "raise"),
       X_hat |-> [i \in 1..rec.n_windows |-> [j \in 1..n |-> 0]],
       r_iters |-> [i \in 1..rec.n_windows |-> 0],
       todo |-> 1..rec.n_windows]

\* a store that fills the columns in completion order
StoreColumnInCompletionOrder(loc, i, x_hat) ==
  [loc.X_hat EXCEPT ![Len(loc.X_hat) - Cardinality(loc.todo) + 1] = x_hat]

\* X_hat[:, i] = x_hat
StoreColumn(loc, i, x_hat) == [loc.X_hat EXCEPT ![i] = x_hat]

\* one pass through the loop body, for window i
LoopBody(loc, i) ==
  LET sol == bsbl_bo(Phi, loc.RY[i])
  IN  [loc EXCEPT !.X_hat = StoreColumn(loc, i, sol.x),
                  !.r_iters = [@ EXCEPT ![i] = sol.iterations],
                  !.todo = @ \ {i}]

\* x = X_hat.flatten(order='F') + 1024; return DecodedData(...)
Result(loc) == [x |-> from_windows(loc.X_hat), r_iters |-> loc.r_iters]

\* the loop as the source runs it: i = 0, 1, ..., n_windows - 1
RECURSIVE RunLoop(_, _, _)
RunLoop(loc, i, nw) ==
  IF i > nw THEN loc ELSE RunLoop(LoopBody(loc, i), i + 1, nw)

ecg_decoder_start ==
  /\ pc = "encoded"
  /\ dl' = DecoderLocals(coded)
  /\ pc' = "solving"
  /\ UNCHANGED <<n, m, d, q_bits, Phi, ecg, enc, coded, decoded, err, ans>>

\* The loop body for window i.  The source's schedule is i ascending; every
\* schedule of the windows is admitted, the source's being one of them.
solve_window(i) ==
  /\ pc = "solving"
  /\ i \in dl.todo
  /\ dl' = LoopBody(dl, i)
  /\ UNCHANGED <<pc, n, m, d, q_bits, Phi, ecg, enc, coded, decoded, err, ans>>

ecg_decoder_finish ==
  /\ pc = "solving"
  /\ dl.todo = {}
  /\ decoded' = Result(dl)
  /\ pc' = "decoded"
  /\ UNCHANGED <<n, m, d, q_bits, Phi, ecg, enc, coded, dl, err, ans>>

Next ==
  \/ build_codec
  \/ \E sig \in Signals, policy \in PadPolicies : ecg_encoder(sig, policy)
  \/ replace_measurements
  \/ ecg_decoder_start
  \/ \E i \in 1..(SpikeLen + 1) : solve_window(i)
  \/ ecg_decoder_finish

Spec == Init /\ [][Next]_vars

(* ------------------- the entropy coder on its own --------------------- *)

\* The entropy-coding lines of ecg_encoder (64-76) and ecg_decoder (90-98)
\* as a function of the stream alone: any (mean_val, std_val) with a
\* non-degenerate band, any sequence over that band.

Band(mean, std) == (mean - n_sigma * std)..(mean + n_sigma * std)

CodecInit ==
  /\ pc = "codec"
  /\ n = 0 /\ m = 0 /\ d = 0 /\ q_bits = 0
  /\ Phi = <<>>
  /\ ecg = <<>>
  /\ enc = NoEnc
  /\ coded = NoCoded
  /\ dl = NoDl
  /\ decoded = NoDecoded
  /\ err = ""
  /\ \E mean \in MeanVals, std \in StdVals :
       \E seq \in UNION {[1..L -> Band(mean, std)] : L \in 0..MaxSeqLen} :
         ans = [NoAns EXCEPT !.phase = "new", !.mean_val = mean,
                             !.std_val = std, !.seq = seq]

\* the model both sides build from (mean_val, std_val)
ModelOf(mean, std) ==
  QuantizedGaussian(mean - n_sigma * std, mean + n_sigma * std, mean, std)

\* encoder = AnsCoder(); encoder.encode_reverse(Y2, model, means, stds)
codec_encode ==
  /\ ans.phase = "new"
  /\ ans' = [ans EXCEPT
               !.phase = "encoded",
               !.pushed = EncodeOrder(ans.seq),
               !.coder = encode_reverse(EmptyCoder, ans.seq,
                                        ModelOf(ans.mean_val, ans.std_val))]
  /\ UNCHANGED <<pc, n, m, d, q_bits, Phi, ecg, enc, coded, dl, decoded, err>>

\* compressed = encoder.get_compressed()
codec_get_compressed ==
  /\ ans.phase = "encoded"
  /\ ans' = [ans EXCEPT !.phase = "compressed",
                        !.compressed = get_compressed(ans.coder)]
  /\ UNCHANGED <<pc, n, m, d, q_bits, Phi, ecg, enc, coded, dl, decoded, err>>

\* ans_decoder = AnsCoder(compressed)
codec_open ==
  /\ ans.phase = "compressed"
  /\ ans' = [ans EXCEPT !.phase = "opened",
                        !.coder = AnsCoder(ans.compressed)]
  /\ UNCHANGED <<pc, n, m, d, q_bits, Phi, ecg, enc, coded, dl, decoded, err>>

\* reconstructed = ans_decoder.decode(model, means, stds), len(means) =
\* n_measurements symbols
codec_decode ==
  /\ ans.phase = "opened"
  /\ ans' = [ans EXCEPT
               !.phase = "decoded",
               !.reconstructed = decode(ans.coder,
                                        ModelOf(ans.mean_val, ans.std_val),
                                        Len(ans.seq))]
  /\ UNCHANGED <<pc, n, m, d, q_bits, Phi, ecg, enc, coded, dl, decoded, err>>

CodecNext ==
  \/ codec_encode
  \/ codec_get_compressed
  \/ codec_open
  \/ codec_decode

CodecSpec == CodecInit /\ [][CodecNext]_vars

\* the coder's alphabet fits the scaled precision in every run explored
ModelFits ==
  pc \in {"encoded", "solving", "decoded"}
    => enc.a_max - enc.a_min + 1 <= Pow2(PRECISION)

(* ------------------------------ claims --------------------------------- *)

Encoded == pc \in {"encoded", "solving", "decoded"}

Decoding == pc \in {"solving", "decoded"}

\* the raw measurements in stream order (Y_np.flatten(order='F'))
RawStream == FlattenF(enc.Y_np)

Clipped(i) == enc.Y2q[i] # enc.Y2c[i]

\* the decoder's locals as they stood before the loop
BeforeLoop(loc) ==
  [loc EXCEPT !.X_hat = [i \in 1..Len(@) |-> [j \in 1..n |-> 0]],
              !.r_iters = [i \in 1..Len(@) |-> 0],
              !.todo = 1..Len(loc.X_hat)]

\* C1: for any sequence over the band of one (mean_val, std_val) pair, the
\* symbols are pushed in reverse input order, and popping len(seq) symbols
\* with the same model from a coder opened on the compressed words returns
\* exactly the sequence, in its original order.
C1_EntropyRoundTrip ==
  /\ ans.phase \in {"encoded", "compressed", "opened", "decoded"} =>
       ans.pushed = [i \in 1..Len(ans.seq) |-> ans.seq[Len(ans.seq) + 1 - i]]
  /\ ans.phase = "decoded" => ans.reconstructed = ans.seq

\* a decoded sequence that is no palindrome and whose coding spilled a word
\* into the bulk
C1_Witness ==
  /\ ans.phase = "decoded"
  /\ Len(ans.seq) >= 4
  /\ ans.seq # Reverse(ans.seq)
  /\ Len(ans.compressed) >= 3
  /\ ans.reconstructed = ans.seq

\* C2: a measurement y that the clip left alone reaches the solver as
\* (y >> q_bits) << q_bits, that is y with its low q_bits bits cleared:
\* y itself when q_bits = 0, and otherwise at most 2^q_bits - 1 below y,
\* whatever the sign of y.
C2_Dequantized ==
  Decoding =>
    \A i \in 1..Len(RawStream) :
      ~Clipped(i) =>
        LET y  == RawStream[i]
            dq == FlattenF(dl.RY)[i]
        IN  /\ dq = y - (y % Pow2(q_bits))
            /\ q_bits = 0 => dq = y
            /\ 0 <= y - dq /\ y - dq < Pow2(q_bits)

\* a shift by one bit that reached the solver with an odd negative and a
\* positive measurement, neither clipped
C2_Witness ==
  /\ pc = "decoded"
  /\ q_bits = 1
  /\ \E i \in 1..Len(RawStream) :
       RawStream[i] < 0 /\ RawStream[i] % 2 = 1 /\ ~Clipped(i)
         /\ FlattenF(dl.RY)[i] = RawStream[i] - 1
  /\ \E i \in 1..Len(RawStream) : RawStream[i] > 0 /\ ~Clipped(i)

\* C3: the stream handed to the entropy coder lies in [a_min, a_max] =
\* [mean_val - 3 std_val, mean_val + 3 std_val]: a quantized value above
\* the band is coded as a_max, one below as a_min, one inside unchanged;
\* and the encoder never fails for a symbol outside the model's support.
C3_ClipBand ==
  /\ enc.a_min = enc.mean_val - 3 * enc.std_val
  /\ enc.a_max = enc.mean_val + 3 * enc.std_val
  /\ Len(enc.Y2c) = Len(enc.Y2q)
  /\ \A i \in 1..Len(enc.Y2q) :
       /\ enc.a_min <= enc.Y2c[i] /\ enc.Y2c[i] <= enc.a_max
       /\ enc.Y2q[i] > enc.a_max => enc.Y2c[i] = enc.a_max
       /\ enc.Y2q[i] < enc.a_min => enc.Y2c[i] = enc.a_min
       /\ (enc.a_min <= enc.Y2q[i] /\ enc.Y2q[i] <= enc.a_max)
            => enc.Y2c[i] = enc.Y2q[i]
  /\ \A i \in 1..Len(enc.pushed) :
       enc.a_min <= enc.pushed[i] /\ enc.pushed[i] <= enc.a_max
  /\ err # "ImpossibleSymbol"

\* an encoded stream with a value at a_max + 1, coded as a_max
C3_Witness ==
  /\ pc = "encoded"
  /\ \E i \in 1..Len(enc.Y2q) :
       enc.Y2q[i] = enc.a_max + 1 /\ enc.Y2c[i] = enc.a_max

\* C4: every EncodedData the encoder returns has
\* n_measurements = m * n_windows.
C4_MeasurementCount ==
  Encoded => coded.n_measurements = m * coded.n_windows

\* a record of several windows under a matrix that is not square
C4_Witness ==
  /\ pc = "encoded"
  /\ m # n
  /\ coded.n_windows >= 2
  /\ coded.n_measurements = m * coded.n_windows

\* C5: for a signal whose length is a multiple of n, the encoder's windows
\* hold sample j of window i = signal[i*n + j] - 1024, and flattening them
\* column by column with 1024 added back gives the signal again.
C5_WindowRoundTrip ==
  (pc \in {"encoded", "encode_failed", "solving", "decoded"}
     /\ Len(ecg) % n = 0) =>
    /\ Len(enc.X) * n = Len(ecg)
    /\ \A i \in 1..Len(enc.X) : \A j \in 1..n :
         enc.X[i][j] = ecg[(i - 1) * n + j] - 1024
    /\ from_windows(enc.X) = ecg

\* two full windows of a signal that is not constant
C5_Witness ==
  /\ pc = "encoded"
  /\ Len(ecg) = 2 * n
  /\ ecg[1] # ecg[2]
  /\ ecg[2] # ecg[n + 1]
  /\ from_windows(enc.X) = ecg

\* C6: while the loop runs, column i of X_hat is still zero if window i is
\* pending and is the solver's estimate for RY[:, i] otherwise, and the
\* DecodedData returned after any order of the windows is the one the
\* ascending loop returns.
C6_OrderIndependent ==
  /\ pc = "solving" =>
       \A i \in 1..Len(dl.X_hat) :
         dl.X_hat[i] = IF i \in dl.todo THEN [j \in 1..n |-> 0]
                       ELSE bsbl_bo(Phi, dl.RY[i]).x
  /\ pc = "decoded" =>
       decoded = Result(RunLoop(BeforeLoop(dl), 1, Len(dl.X_hat)))

\* the last windows solved before the first, with distinct estimates
C6_Witness ==
  /\ pc = "solving"
  /\ Len(dl.X_hat) >= 3
  /\ dl.todo = {1}
  /\ dl.X_hat[2] # dl.X_hat[3]
  /\ dl.X_hat[3] # dl.X_hat[1]

\* C7 (as claimed): build_codec with d > m ends in a ConfigurationError and
\* returns no encoder or decoder.
C7_ConfigurationError ==
  (d > m /\ pc # "new") => (pc = "build_failed" /\ err = "ConfigurationError")

\* C8 (as claimed): n_samples of the returned record is the length of the
\* input signal, whatever that length.
C8_SampleCount ==
  Encoded => coded.n_samples = Len(ecg)

\* C9: the DecodedData is the one ecg_decoder returns for the record as the
\* encoder made it, whatever the measurements field of the record that was
\* actually decoded.
C9_DiagnosticsIgnored ==
  pc = "decoded" =>
    LET original == [coded EXCEPT !.measurements = enc.Y_np]
    IN  decoded = Result(RunLoop(DecoderLocals(original), 1, coded.n_windows))

\* a record decoded after its measurements were replaced
C9_Witness ==
  /\ pc = "decoded"
  /\ coded.measurements # enc.Y_np
  /\ \E i \in 1..Len(decoded.x) : decoded.x[i] # 1024

\* C10: mean_val and std_val of the record are the nearest integers to the
\* mean and the population standard deviation of the stream after the
\* shift and before the clip, and the decoder rebuilds from them the band
\* the encoder clipped to and built its model on.
C10_SharedStatistics ==
  Encoded =>
    LET N == Len(enc.Y2q)
        S == SeqSum(enc.Y2q)
        V == N * SeqSumSq(enc.Y2q) - S * S
        k == coded.std_val
    IN  /\ \A i \in 1..N : enc.Y2q[i] = RawStream[i] \div Pow2(q_bits)
        /\ 2 * Abs(S - coded.mean_val * N) <= N
        /\ k >= 0
        /\ 4 * V <= (2 * k + 1) * (2 * k + 1) * N * N
        /\ k > 0 => (2 * k - 1) * (2 * k - 1) * N * N <= 4 * V
        /\ enc.a_min = coded.mean_val - 3 * coded.std_val
        /\ enc.a_max = coded.mean_val + 3 * coded.std_val
        /\ Decoding => (dl.a_min = enc.a_min /\ dl.a_max = enc.a_max)

\* a decoded record whose stream was clipped, so that its statistics are
\* not those of the coded symbols
C10_Witness ==
  /\ pc = "decoded"
  /\ \E i \in 1..Len(enc.Y2q) : Clipped(i)
  /\ 2 * SeqSum(enc.Y2q) # 2 * coded.mean_val * Len(enc.Y2q)
  /\ dl.a_min = enc.a_min

====
